---- MODULE Spec2Model ----
(***************************************************************************)
(* The procedure sequencer of pylabtools/ui/sequence.py: the sequence tree *)
(* (SequenceGroup), its flattening and Cartesian expansion, its text       *)
(* serialization and parsing, and the value typecast (SequenceUI).         *)
(*                                                                         *)
(* Python strings are modelled as sequences of one-character strings, so   *)
(* that split, strip, startswith and the label arithmetic are computed the *)
(* way the code computes them.                                             *)
(***************************************************************************)
EXTENDS Integers, Sequences, FiniteSets, TLC

VARIABLES tree, file, res

vars == <<tree, file, res>>

----------------------------------------------------------------------------
(* Bounds of the model *)

\* most parameter nodes a tree holds in the editing session (guard of the
\* inserting action)
MaxNodes == 2
\* most parameter nodes a tree holds in the save and load session
MaxLoadNodes == 3
\* most numeric segments of a dotted path typed into the Level selector
MaxPathLen == 2

----------------------------------------------------------------------------
(* Python string primitives used by the code *)

TAB == "\t"
NL == "\n"
Whitespace == {" ", TAB, NL}
Digits == <<"0", "1", "2", "3", "4", "5", "6", "7", "8", "9">>
DigitSet == {Digits[i] : i \in 1..10}
DigitVal(c) == (CHOOSE i \in 1..10 : Digits[i] = c) - 1

\* str(n) for an integer n
RECURSIVE StrNat(_)
StrNat(n) == IF n < 10 THEN <<Digits[n + 1]>>
             ELSE StrNat(n \div 10) \o <<Digits[(n % 10) + 1]>>
Str(n) == IF n < 0 THEN <<"-">> \o StrNat(0 - n) ELSE StrNat(n)

\* s.split(c) for a one-character separator c
RECURSIVE Split(_, _)
Split(s, c) ==
    IF \A i \in 1..Len(s) : s[i] # c THEN <<s>>
    ELSE LET k == CHOOSE i \in 1..Len(s) : s[i] = c /\ \A j \in 1..(i - 1) : s[j] # c
         IN <<SubSeq(s, 1, k - 1)>> \o Split(SubSeq(s, k + 1, Len(s)), c)

\* s.strip()
RECURSIVE LStrip(_)
LStrip(s) == IF s # <<>> /\ Head(s) \in Whitespace THEN LStrip(Tail(s)) ELSE s
RECURSIVE RStrip(_)
RStrip(s) == IF s # <<>> /\ s[Len(s)] \in Whitespace
             THEN RStrip(SubSeq(s, 1, Len(s) - 1)) ELSE s
Strip(s) == RStrip(LStrip(s))

StartsWith(s, c) == s # <<>> /\ Head(s) = c
EndsWith(s, c) == s # <<>> /\ s[Len(s)] = c
\* "np" in s
ContainsNp(s) == \E i \in 1..(Len(s) - 1) : s[i] = "n" /\ s[i + 1] = "p"

RECURSIVE DigitsVal(_)
DigitsVal(s) == IF s = <<>> THEN 0
                ELSE 10 * DigitsVal(SubSeq(s, 1, Len(s) - 1)) + DigitVal(s[Len(s)])
IsDigits(s) == s # <<>> /\ \A i \in 1..Len(s) : s[i] \in DigitSet

\* int(s) and float(s) on the decimal literals of the model's alphabet:
\* surrounding whitespace is ignored, one leading sign is allowed, anything
\* else is a ValueError
ParseNum(s) ==
    LET t == Strip(s)
        neg == StartsWith(t, "-")
        body == IF neg \/ StartsWith(t, "+") THEN Tail(t) ELSE t
    IN IF IsDigits(body)
       THEN [ok |-> TRUE, v |-> IF neg THEN 0 - DigitsVal(body) ELSE DigitsVal(body)]
       ELSE [ok |-> FALSE, v |-> 0]

\* seq[i] with Python's negative indexing; ok is FALSE on an IndexError
PyIndex(seq, i) ==
    IF i >= 0 /\ i < Len(seq) THEN [ok |-> TRUE, pos |-> i + 1]
    ELSE IF i < 0 /\ 0 - i <= Len(seq) THEN [ok |-> TRUE, pos |-> Len(seq) + i + 1]
    ELSE [ok |-> FALSE, pos |-> 0]

\* sep.join(parts)
RECURSIVE Join(_, _)
Join(parts, sep) == IF parts = <<>> THEN <<>>
                    ELSE IF Len(parts) = 1 THEN parts[1]
                    ELSE parts[1] \o sep \o Join(Tail(parts), sep)

----------------------------------------------------------------------------
(* The sequence tree *)

level_identifier == <<":", " ">>

\* the type tags offered by the Add list, one of them holding a colon
Tags == {<<"b">>, <<"a", ":", "b">>}
\* the values a node is given
Vals == {<<"1">>, <<"[", "1", ",", "2", "]">>, <<"s", "n", "p">>}

\* a Parameter of the tree; typ records the type tag addNew was given (the
\* code keeps it only inside the name)
Node(name, typ, value, kind, childs) ==
    [name |-> name, typ |-> typ, value |-> value, kind |-> kind, childs |-> childs]

IsBase(n) == n.kind \in {"level", "remove"}

\* SequenceGroup.__init__: the root with its two reserved children
InitTree ==
    Node(<<"S", "e", "q", "u", "e", "n", "c", "e">>, <<>>, <<>>, "root",
         << Node(<<"L", "e", "v", "e", "l">>, <<>>, <<"x">>, "level", <<>>),
            Node(<<"R", "e", "m", "o", "v", "e">>, <<>>, <<>>, "remove", <<>>) >>)

RECURSIVE NodeAt(_, _)
NodeAt(node, p) == IF p = <<>> THEN node ELSE NodeAt(node.childs[Head(p)], Tail(p))

RECURSIVE WithChilds(_, _, _)
WithChilds(node, p, cs) ==
    IF p = <<>> THEN [node EXCEPT !.childs = cs]
    ELSE [node EXCEPT !.childs[Head(p)] = WithChilds(@, Tail(p), cs)]

InsertAt(seq, pos, x) == SubSeq(seq, 1, pos) \o <<x>> \o SubSeq(seq, pos + 1, Len(seq))
RemoveAt(seq, k) == SubSeq(seq, 1, k - 1) \o SubSeq(seq, k + 1, Len(seq))

LevelPos(root) == CHOOSE i \in 1..Len(root.childs) : root.childs[i].kind = "level"
\* self.level.value()
LevelValue(root) == root.childs[LevelPos(root)].value

RECURSIVE CountParams(_)
RECURSIVE CountParamsSeq(_)
CountParams(node) == (IF node.kind = "param" THEN 1 ELSE 0) + CountParamsSeq(node.childs)
CountParamsSeq(cs) == IF cs = <<>> THEN 0 ELSE CountParams(Head(cs)) + CountParamsSeq(Tail(cs))

\* the walk shared by addNew and remove_child: child = children[int(lvl)]
\* for each segment; err is "ValueError" (int() of a non-number) or
\* "IndexError", and p the path walked so far
RECURSIVE Walk(_, _, _)
Walk(root, segs, p) ==
    IF segs = <<>> THEN [err |-> "none", p |-> p]
    ELSE LET n == ParseNum(Head(segs))
             cs == NodeAt(root, p).childs
         IN IF ~n.ok THEN [err |-> "ValueError", p |-> p]
            ELSE LET ix == PyIndex(cs, n.v)
                 IN IF ~ix.ok THEN [err |-> "IndexError", p |-> p]
                    ELSE Walk(root, Tail(segs), Append(p, ix.pos))

IsX(seg) == seg = <<"x">>

\* Parameter.insertChild: a name the parent already holds is refused
InsertChild(root, p, pos, child) ==
    LET cs == NodeAt(root, p).childs
    IN IF \E i \in 1..Len(cs) : cs[i].name = child.name
       THEN [err |-> "ValueError", tree |-> root]
       ELSE [err |-> "none", tree |-> WithChilds(root, p, InsertAt(cs, pos, child))]

\* SequenceGroup.addNew(typ, level, val), level a list of segments: numeric
\* segments, then at most one "x"
addNew(root, typ, level, val) ==
    LET hasX == level # <<>> /\ IsX(level[Len(level)])
        nums == IF hasX THEN SubSeq(level, 1, Len(level) - 1) ELSE level
        w == Walk(root, nums, <<>>)
    IN IF w.err # "none" THEN [err |-> w.err, tree |-> root]
       ELSE IF ~hasX THEN [err |-> "none", tree |-> root]
       ELSE LET cs == NodeAt(root, w.p).childs
                base == IF w.p = <<>> THEN 2 ELSE 0
                insert_pos == Len(cs) - base
                insert_level == Len(cs) - base
                name == Str(insert_level) \o level_identifier \o typ
            IN InsertChild(root, w.p, insert_pos, Node(name, typ, val, "param", <<>>))

\* Parameter.setName through the parent's _renameChild: a name the parent
\* already holds (the child's own included) leaves the child as it is
RECURSIVE Rename(_, _)
Rename(cs, i) ==
    IF i > Len(cs) THEN cs
    ELSE IF IsBase(cs[i]) THEN Rename(cs, i + 1)
    ELSE LET parts == Split(cs[i].name, ":")
             name == Strip(parts[Len(parts)])
             new == Str(i - 1) \o level_identifier \o name
         IN IF \E j \in 1..Len(cs) : cs[j].name = new
            THEN Rename(cs, i + 1)
            ELSE Rename([cs EXCEPT ![i].name = new], i + 1)

\* SequenceGroup.remove_child()
remove_child(root) ==
    LET level == Split(LevelValue(root), ".")
        w == Walk(root, level, <<>>)
    IN IF w.err # "none" THEN [err |-> w.err, tree |-> root]
       ELSE LET parent == SubSeq(w.p, 1, Len(w.p) - 1)
                k == w.p[Len(w.p)]
                cs == NodeAt(root, parent).childs
                kept == IF IsBase(cs[k]) THEN cs ELSE RemoveAt(cs, k)
            IN [err |-> "none", tree |-> WithChilds(root, parent, Rename(kept, 1))]

----------------------------------------------------------------------------
(* Value typecasting *)

\* a literal of a Python expression: signs, then a decimal number
RECURSIVE IsExprNum(_)
IsExprNum(s) ==
    IF s # <<>> /\ Head(s) \in {"-", "+"} THEN IsExprNum(Tail(s))
    ELSE IsDigits(s) /\ (Head(s) # "0" \/ \A i \in 1..Len(s) : s[i] = "0")

\* eval(val) with only the name np bound: a tuple expression of np and
\* numbers evaluates, every other text of the model's alphabet raises
\* (NameError, SyntaxError or TypeError)
EvalOk(val) ==
    LET parts == Split(Strip(val), ",")
        core == IF Len(parts) > 1 /\ parts[Len(parts)] = <<>>
                THEN SubSeq(parts, 1, Len(parts) - 1) ELSE parts
    IN \A i \in 1..Len(core) :
          \/ Strip(core[i]) = <<"n", "p">>
          \/ IsExprNum(Strip(core[i]))

Raised == [t |-> "raise", v |-> <<>>]

\* SequenceUI.typecast(val): a float, a list, an evaluated object, the
\* original string, or an exception
RECURSIVE typecast(_)
RECURSIVE typecastList(_)
typecast(orig) ==
    LET neg == StartsWith(orig, "-")
        val == IF neg THEN Tail(orig) ELSE orig
        f == ParseNum(val)
    IN IF f.ok THEN [t |-> "float", v |-> <<IF neg THEN 0 - f.v ELSE f.v>>]
       ELSE IF StartsWith(val, "[") /\ EndsWith(val, "]")
       THEN typecastList(Split(SubSeq(val, 2, Len(val) - 1), ","))
       ELSE IF ContainsNp(val)
       THEN (IF EvalOk(val) THEN [t |-> "obj", v |-> val] ELSE Raised)
       ELSE [t |-> "str", v |-> orig]
typecastList(val_list) ==
    IF val_list = <<>> THEN [t |-> "list", v |-> <<>>]
    ELSE LET h == typecast(Strip(Head(val_list)))
             r == typecastList(Tail(val_list))
         IN IF h.t = "raise" \/ r.t = "raise" THEN Raised
            ELSE [t |-> "list", v |-> <<h>> \o r.v]

----------------------------------------------------------------------------
(* Flattening and Cartesian expansion *)

\* an insertion-ordered dict is a sequence of [k, v] entries with distinct keys
HasKey(d, k) == \E i \in 1..Len(d) : d[i].k = k
\* d[k] = v: an existing key keeps its place
DictSet(d, k, v) ==
    IF HasKey(d, k)
    THEN [i \in 1..Len(d) |-> IF d[i].k = k THEN [k |-> k, v |-> v] ELSE d[i]]
    ELSE Append(d, [k |-> k, v |-> v])
DictGet(d, k) == d[CHOOSE i \in 1..Len(d) : d[i].k = k].v
\* a dict as Python compares it: without the order of its entries
AsMap(d) == {d[i] : i \in 1..Len(d)}

RECURSIVE SelectParams(_)
SelectParams(cs) == IF cs = <<>> THEN <<>>
                    ELSE IF IsBase(Head(cs)) THEN SelectParams(Tail(cs))
                    ELSE <<Head(cs)>> \o SelectParams(Tail(cs))

\* getValues() without the Level and Remove entries: the root's parameter
\* nodes, each a (name, value, children) item
SeqDict(root) == SelectParams(root.childs)

\* SequenceUI.build_procedure_sequence_a(tree, proc_dict, sequence_list);
\* st carries proc_dict (pd), sequence_list (sl) and the exception raised
RECURSIVE build_procedure_sequence_a(_, _)
RECURSIVE build_a_items(_, _, _)
build_procedure_sequence_a(items, st) ==
    IF st.err # "none" THEN st
    ELSE IF Len(items) = 0 THEN [st EXCEPT !.sl = Append(@, st.pd)]
    ELSE build_a_items(items, 1, st)
build_a_items(items, i, st) ==
    IF i > Len(items) \/ st.err # "none" THEN st
    ELSE LET key == Strip(Split(items[i].name, ":")[2])
             tv == typecast(items[i].value)
         IN IF tv.t = "raise" THEN [st EXCEPT !.err = "EvalError"]
            ELSE build_a_items(items, i + 1,
                    build_procedure_sequence_a(items[i].childs,
                        [st EXCEPT !.pd = DictSet(@, key, tv)]))

\* a product whose first list varies fastest
RECURSIVE ProductFirstFastest(_)
RECURSIVE AppendEach(_, _)
AppendEach(combos, xs) ==
    IF xs = <<>> THEN <<>>
    ELSE [i \in 1..Len(combos) |-> Append(combos[i], Head(xs))] \o AppendEach(combos, Tail(xs))
ProductFirstFastest(lists) ==
    IF lists = <<>> THEN << <<>> >>
    ELSE AppendEach(ProductFirstFastest(SubSeq(lists, 1, Len(lists) - 1)), lists[Len(lists)])

\* itertools.product(*lists): the last list varies fastest
RECURSIVE Product(_)
RECURSIVE Prepend(_, _)
RECURSIVE ProductFrom(_, _)
Prepend(x, combos) == [i \in 1..Len(combos) |-> <<x>> \o combos[i]]
ProductFrom(first, rest) ==
    IF first = <<>> THEN <<>>
    ELSE Prepend(Head(first), rest) \o ProductFrom(Tail(first), rest)
Product(lists) ==
    IF lists = <<>> THEN << <<>> >>
    ELSE ProductFrom(Head(lists), Product(Tail(lists)))

RECURSIVE SelectEntries(_, _)
SelectEntries(d, wantList) ==
    IF d = <<>> THEN <<>>
    ELSE IF (Head(d).v.t = "list") = wantList
         THEN <<Head(d)>> \o SelectEntries(Tail(d), wantList)
         ELSE SelectEntries(Tail(d), wantList)

\* item = scalar_data.copy(); item.update(zip(list_keys, combination))
RECURSIVE UpdateZip(_, _, _)
UpdateZip(item, list_keys, combination) ==
    IF list_keys = <<>> THEN item
    ELSE UpdateZip(DictSet(item, Head(list_keys), Head(combination)),
                   Tail(list_keys), Tail(combination))

\* the block of one dict of the sequence list
ExpandDict(dct) ==
    LET lists == SelectEntries(dct, TRUE)
        list_keys == [i \in 1..Len(lists) |-> lists[i].k]
        scalar_data == SelectEntries(dct, FALSE)
        list_values == [i \in 1..Len(lists) |-> lists[i].v.v]
        combos == Product(list_values)
    IN [i \in 1..Len(combos) |-> UpdateZip(scalar_data, list_keys, combos[i])]

\* SequenceUI.build_procedure_sequence_b(sequence_list)
RECURSIVE build_procedure_sequence_b(_)
build_procedure_sequence_b(sequence_list) ==
    IF sequence_list = <<>> THEN <<>>
    ELSE ExpandDict(Head(sequence_list)) \o build_procedure_sequence_b(Tail(sequence_list))

\* SequenceUI.build_procedure_sequence(): flatten, then expand
build_procedure_sequence(root) ==
    LET a == build_procedure_sequence_a(SeqDict(root),
                [pd |-> <<>>, sl |-> <<>>, err |-> "none"])
    IN IF a.err # "none" THEN [err |-> a.err, sl |-> a.sl, out |-> <<>>]
       ELSE [err |-> "none", sl |-> a.sl, out |-> build_procedure_sequence_b(a.sl)]

----------------------------------------------------------------------------
(* Serialization and parsing *)

RECURSIVE Tabs(_)
Tabs(i) == IF i = 0 THEN <<>> ELSE <<TAB>> \o Tabs(i - 1)

\* SequenceGroup.get_node_str(node_dict, string, i): one line per node,
\* i tabs deep, then the lines of its children
RECURSIVE get_node_str(_, _, _)
get_node_str(items, string, i) ==
    IF items = <<>> THEN string
    ELSE LET n == Head(items)
             line == Tabs(i) \o n.name \o <<":", " ">> \o n.value \o <<NL>>
             own == string \o line
             sub == IF Len(n.childs) > 0 THEN get_node_str(n.childs, own, i + 1)
                    ELSE own
         IN get_node_str(Tail(items), sub, i)

\* SequenceGroup.get_readable(): the Level and Remove entries are skipped
RECURSIVE get_readable_items(_, _)
get_readable_items(items, seq_str) ==
    IF items = <<>> THEN seq_str
    ELSE LET n == Head(items)
         IN IF IsBase(n) THEN get_readable_items(Tail(items), seq_str)
            ELSE get_readable_items(Tail(items),
                    get_node_str(n.childs,
                                 seq_str \o n.name \o <<":", " ">> \o n.value \o <<NL>>,
                                 1))
get_readable(root) == get_readable_items(root.childs, <<>>)

\* f.readlines(): each line with its newline
RECURSIVE Readlines(_)
Readlines(text) ==
    IF text = <<>> THEN <<>>
    ELSE IF \A i \in 1..Len(text) : text[i] # NL THEN <<text>>
    ELSE LET k == CHOOSE i \in 1..Len(text) : text[i] = NL /\ \A j \in 1..(i - 1) : text[j] # NL
         IN <<SubSeq(text, 1, k)>> \o Readlines(SubSeq(text, k + 1, Len(text)))

\* sub_levels.pop(), n times; ok is FALSE when the list runs empty
Pops(sub_levels, n) ==
    IF n > Len(sub_levels) THEN [ok |-> FALSE, s |-> <<>>]
    ELSE [ok |-> TRUE, s |-> SubSeq(sub_levels, 1, Len(sub_levels) - n)]

\* sub_levels[i] += 1 for the 0-based index i >= 0
Bump(sub_levels, i) ==
    IF i < Len(sub_levels) THEN [ok |-> TRUE, s |-> [sub_levels EXCEPT ![i + 1] = @ + 1]]
    ELSE [ok |-> FALSE, s |-> sub_levels]

\* the body of the loop of input_sequence for one line; st carries
\* top_level, sub_levels, tabs, the tree and the exception raised
ParseLine(st, line) ==
    LET top == ~StartsWith(line, TAB)
        new_tabs == Len(Split(line, TAB)) - 1
        popped == Pops(st.sub_levels, st.tabs - new_tabs)
        subs == IF top THEN [ok |-> TRUE, s |-> <<>>]
                ELSE IF new_tabs > st.tabs
                     THEN [ok |-> TRUE, s |-> Append(st.sub_levels, 0)]
                ELSE IF new_tabs < st.tabs
                     THEN (IF popped.ok THEN Bump(popped.s, new_tabs - 1) ELSE popped)
                ELSE Bump(st.sub_levels, new_tabs - 1)
        top_level == IF top THEN st.top_level + 1 ELSE st.top_level
        path == <<Str(top_level)>> \o [i \in 1..Len(subs.s) |-> Str(subs.s[i])]
        level == [path EXCEPT ![Len(path)] = <<"x">>]
        typ_val_split == Split(line, ":")
    IN IF ~subs.ok THEN [st EXCEPT !.err = "IndexError"]
       ELSE IF Len(typ_val_split) < 3 THEN [st EXCEPT !.err = "IndexError"]
       ELSE LET typ == Strip(typ_val_split[2])
                val == Strip(typ_val_split[3])
                r == addNew(st.tree, typ, level, val)
            IN [top_level |-> top_level, sub_levels |-> subs.s,
                tabs |-> IF top THEN 0 ELSE new_tabs,
                tree |-> r.tree, err |-> r.err]

RECURSIVE ParseLines(_, _)
ParseLines(st, lines) ==
    IF lines = <<>> \/ st.err # "none" THEN st
    ELSE ParseLines(ParseLine(st, Head(lines)), Tail(lines))

\* the children of the root that are reserved: what the clearing loop keeps
RECURSIVE SelectBase(_)
SelectBase(cs) == IF cs = <<>> THEN <<>>
                  ELSE IF IsBase(Head(cs)) THEN <<Head(cs)>> \o SelectBase(Tail(cs))
                  ELSE SelectBase(Tail(cs))

\* SequenceUI.input_sequence() on the text of the file at the load path
input_sequence(root, text) ==
    LET cleared == [root EXCEPT !.childs = SelectBase(@)]
        st == ParseLines([top_level |-> 0 - 1, sub_levels |-> <<>>, tabs |-> 0,
                          tree |-> cleared, err |-> "none"],
                         Readlines(text))
    IN [tree |-> st.tree, err |-> st.err]

----------------------------------------------------------------------------
(* The editing session *)

Idx == {<<"0">>, <<"1">>}

RECURSIVE NumPaths(_)
NumPaths(n) == IF n = 0 THEN {<<>>}
               ELSE NumPaths(n - 1) \cup
                    {Append(q, i) : q \in NumPaths(n - 1), i \in Idx}

\* the dotted paths typed into the Level selector
LevelLists == {q : q \in NumPaths(MaxPathLen) \ {<<>>}}
                \cup {Append(q, <<"x">>) : q \in NumPaths(MaxPathLen)}
LevelValues == {Join(q, <<".">>) : q \in LevelLists}

\* what the last operation left: its name, the error it raised, for a build
\* the sequence list (sl) and the expanded sequence (out), and for a call of
\* a function on its own the argument (arg) and the result (out)
NoRes == [op |-> "none", err |-> "none", sl |-> <<>>, out |-> <<>>, arg |-> <<>>]

Init == /\ tree = InitTree
        /\ file = <<>>
        /\ res = NoRes

\* the user edits the Level selector
SetLevel(v) ==
    /\ v # LevelValue(tree)
    /\ tree' = [tree EXCEPT !.childs[LevelPos(tree)].value = v]
    /\ res' = NoRes
    /\ UNCHANGED file

\* the Add list: addNew(typ) at the level the selector names
AddNew(typ, val) ==
    /\ CountParams(tree) < MaxNodes
    /\ LET r == addNew(tree, typ, Split(LevelValue(tree), "."), val)
       IN /\ tree' = r.tree
          /\ res' = [NoRes EXCEPT !.op = "add", !.err = r.err]
    /\ UNCHANGED file

\* the Remove trigger
RemoveChild ==
    /\ LET r == remove_child(tree)
       IN /\ tree' = r.tree
          /\ res' = [NoRes EXCEPT !.op = "remove", !.err = r.err]
    /\ UNCHANGED file

\* the Start trigger
Build ==
    /\ res.op # "build"
    /\ LET r == build_procedure_sequence(tree)
       IN res' = [NoRes EXCEPT !.op = "build", !.err = r.err, !.sl = r.sl, !.out = r.out]
    /\ UNCHANGED <<tree, file>>

Next ==
    \/ \E v \in LevelValues : SetLevel(v)
    \/ \E typ \in Tags, val \in Vals : AddNew(typ, val)
    \/ RemoveChild
    \/ Build

Spec == Init /\ [][Next]_vars

----------------------------------------------------------------------------
(* Properties of the editing session and of the build *)

HasColon(s) == \E i \in 1..Len(s) : s[i] = ":"

\* every parameter node below node n is labelled "<position>: <its tag>"
RECURSIVE LabelsOk(_)
LabelsOk(n) ==
    \A i \in 1..Len(n.childs) :
       LET c == n.childs[i]
       IN /\ IsBase(c) \/ c.name = Str(i - 1) \o level_identifier \o c.typ
          /\ LabelsOk(c)

RECURSIVE ColonFree(_)
ColonFree(n) == /\ ~HasColon(n.typ)
                /\ \A i \in 1..Len(n.childs) : ColonFree(n.childs[i])

\* C1: after any Insert and Remove operations every non-reserved node's label
\* is "<i>: <type_tag>", i its 0-based position among its siblings and
\* type_tag the tag it was inserted with
C1_Reindexing == LabelsOk(tree)

\* the same for trees none of whose tags holds a colon
C1_ColonFreeReindexing == ColonFree(tree) => LabelsOk(tree)

\* the root-to-leaf chains of the parameter nodes, in depth-first pre-order
RECURSIVE LeafChains(_, _)
LeafChains(items, prefix) ==
    IF items = <<>> THEN <<>>
    ELSE LET chain == Append(prefix, Head(items))
         IN (IF Head(items).childs = <<>> THEN <<chain>>
             ELSE LeafChains(Head(items).childs, chain))
            \o LeafChains(Tail(items), prefix)

Chains == LeafChains(SeqDict(tree), <<>>)

\* the key the flattening files a node under
FlatKey(n) == Strip(Split(n.name, ":")[2])

\* C2: flattening appends exactly one map per leaf, in depth-first pre-order
\* of the leaves (the map of a leaf holds that leaf's typecast value), and
\* exactly one empty map for the empty tree
C2_FlattenCompleteness ==
    res.op = "build" =>
       IF Chains = <<>> THEN res.sl = << <<>> >>
       ELSE /\ Len(res.sl) = Len(Chains)
            /\ \A i \in 1..Len(Chains) :
                  LET leaf == Chains[i][Len(Chains[i])]
                  IN /\ HasKey(res.sl[i], FlatKey(leaf))
                     /\ DictGet(res.sl[i], FlatKey(leaf)) = typecast(leaf.value)

\* the same for the builds that raise nothing
C2_WhenNoException ==
    (res.op = "build" /\ res.err = "none") => C2_FlattenCompleteness

\* the map the claim expects of a chain: one entry per type tag on it (the
\* tag as the flattening recovers it from the label), valued by the deepest
\* node carrying the tag
ExpectedMap(chain) ==
    {[k |-> FlatKey(chain[j]), v |-> typecast(chain[j].value)] :
        j \in {j \in 1..Len(chain) :
                 \A m \in (j + 1)..Len(chain) : FlatKey(chain[m]) # FlatKey(chain[j])}}

\* C3: the map emitted for a leaf has one entry per type tag on the leaf's
\* root-to-leaf path, whatever was visited before, each valued by the
\* typecast value of the deepest node on the path with that tag
C3_FlattenContent ==
    res.op = "build" =>
       \A i \in 1..Len(Chains) :
          i <= Len(res.sl) => AsMap(res.sl[i]) = ExpectedMap(Chains[i])

\* a numeric segment of the path is no index of a parameter node at the depth
\* being walked
RECURSIVE OutOfRange(_, _)
OutOfRange(node, nums) ==
    IF nums = <<>> THEN FALSE
    ELSE LET params == SelectParams(node.childs)
             n == ParseNum(Head(nums))
         IN /\ n.ok
            /\ n.v >= 0
            /\ \/ n.v >= Len(params)
               \/ OutOfRange(params[n.v + 1], Tail(nums))

LevelList == Split(LevelValue(tree), ".")
NumericPart(level) ==
    IF level # <<>> /\ IsX(level[Len(level)]) THEN SubSeq(level, 1, Len(level) - 1)
    ELSE level

\* C7: an Insert whose path holds a numeric segment that is not the index of
\* an existing non-reserved node at the depth walked fails with an index error
EndsInX(level) == level # <<>> /\ IsX(level[Len(level)])

C7_InsertIndexChecked ==
    [][(res'.op = "add" /\ EndsInX(LevelList)
           /\ OutOfRange(tree, NumericPart(LevelList)))
          => res'.err = "IndexError"]_vars

\* the same below the root, where no reserved child is among the siblings
C7_BelowRoot ==
    [][(/\ res'.op = "add"
        /\ EndsInX(LevelList)
        /\ Len(NumericPart(LevelList)) >= 1
        /\ ~OutOfRange(tree, <<Head(NumericPart(LevelList))>>)
        /\ OutOfRange(tree, NumericPart(LevelList)))
          => res'.err = "IndexError"]_vars

ReservedLast(root) ==
    LET n == Len(root.childs)
    IN /\ n >= 2
       /\ root.childs[n - 1].kind = "level"
       /\ root.childs[n].kind = "remove"
       /\ \A i \in 1..(n - 2) : root.childs[i].kind = "param"

\* the path in the Level selector addresses the Level selector or the Remove
\* trigger
AddressesReserved(root) ==
    LET w == Walk(root, Split(LevelValue(root), "."), <<>>)
    IN w.err = "none" /\ w.p # <<>> /\ IsBase(NodeAt(root, w.p))

\* C9: the Level selector and the Remove trigger stay the last two children
\* of the root, and a Remove addressing one of them leaves the tree unchanged
C9_ReservedPermanent ==
    /\ ReservedLast(tree)
    /\ [][/\ ReservedLast(tree')
          /\ (res'.op = "remove" /\ AddressesReserved(tree)) => tree' = tree]_vars

\* the first half alone
C9_ReservedStayLast == ReservedLast(tree)

\* the second half for trees without a colon in a tag
C9_ColonFreeUnchanged ==
    [][(res'.op = "remove" /\ AddressesReserved(tree) /\ ColonFree(tree))
          => tree' = tree]_vars

----------------------------------------------------------------------------
(* Saving and loading: a scripted session that inserts, saves and loads, the *)
(* load path holding some file when the session starts                       *)

Line(tabs, label, typ, val) ==
    Tabs(tabs) \o label \o <<":", " ">> \o typ \o <<":", " ">> \o val \o <<NL>>
GoodLine(tabs) == Line(tabs, <<"0">>, <<"b">>, <<"1">>)

\* the files found at the load path: an empty one, a well-formed one, one
\* whose second line jumps two levels, the same with a third line, one whose
\* second line lacks its delimiters, one whose first line is indented
InitFiles ==
    { <<>>,
      GoodLine(0) \o GoodLine(1),
      GoodLine(0) \o GoodLine(2),
      GoodLine(0) \o GoodLine(2) \o GoodLine(1),
      GoodLine(0) \o <<"b", NL>>,
      GoodLine(1) }

InsertLevels == {Append(q, <<"x">>) : q \in NumPaths(MaxPathLen)}

InitLoad == /\ tree = InitTree
            /\ file \in InitFiles
            /\ res = NoRes

Edited == res.op \in {"none", "add"}

\* a scripted Insert: addNew(typ, level, val)
AddNewAt(typ, level, val) ==
    /\ Edited
    /\ CountParams(tree) < MaxLoadNodes
    /\ LET r == addNew(tree, typ, level, val)
       IN /\ tree' = r.tree
          /\ res' = [NoRes EXCEPT !.op = "add", !.err = r.err]
    /\ UNCHANGED file

\* SequenceUI.write_sequence(): the Save trigger
Save ==
    /\ file' = get_readable(tree)
    /\ res' = [NoRes EXCEPT !.op = "save"]
    /\ UNCHANGED tree

\* the Load trigger (the guard caps the nodes that repeated loads pile up
\* below a reserved child, which the clearing loop never removes)
Load ==
    /\ LET r == input_sequence(tree, file)
       IN /\ CountParams(r.tree) <= MaxLoadNodes
          /\ tree' = r.tree
          /\ res' = [NoRes EXCEPT !.op = "load", !.err = r.err]
    /\ UNCHANGED file

NextLoad ==
    \/ \E typ \in Tags, level \in InsertLevels, val \in Vals : AddNewAt(typ, level, val)
    \/ Save
    \/ Load

SpecLoad == InitLoad /\ [][NextLoad]_vars

\* what flattening a tree appends, and whether it raises
Flat(root) ==
    build_procedure_sequence_a(SeqDict(root), [pd |-> <<>>, sl |-> <<>>, err |-> "none"])

\* C5: loading the text saved from a tree gives a tree that flattens to the
\* same list of Assignment Maps
C5_RoundTrip ==
    [][(res'.op = "load" /\ file = get_readable(tree))
          => (res'.err = "none" /\ Flat(tree').sl = Flat(tree).sl
                /\ Flat(tree').err = Flat(tree).err)]_vars

\* the same for trees without a colon in a tag
C5_ColonFreeRoundTrip ==
    [][(res'.op = "load" /\ file = get_readable(tree) /\ ColonFree(tree))
          => (res'.err = "none" /\ Flat(tree').sl = Flat(tree).sl
                /\ Flat(tree').err = Flat(tree).err)]_vars

\* C6: a Load that ends with an error leaves all of the file's nodes or none
C6_LoadAtomic ==
    (res.op = "load" /\ res.err # "none") =>
       CountParamsSeq(SeqDict(tree)) \in {0, Len(Readlines(file))}

LeadingTabs(line) ==
    IF \A i \in 1..Len(line) : line[i] = TAB THEN Len(line)
    ELSE (CHOOSE i \in 1..Len(line) : line[i] # TAB /\ \A j \in 1..(i - 1) : line[j] = TAB) - 1

\* a line more than one level deeper than the line before it, or a line with
\* fewer than two colons
Malformed(text) ==
    LET lines == Readlines(text)
    IN \/ \E i \in 2..Len(lines) : LeadingTabs(lines[i]) > LeadingTabs(lines[i - 1]) + 1
       \/ \E i \in 1..Len(lines) : Len(Split(lines[i], ":")) < 3

\* C8: loading a malformed file raises an error
C8_MalformedRejected ==
    (res.op = "load" /\ Malformed(file)) => res.err # "none"

\* the half of it about the delimiters
C8_MissingDelimiterRejected ==
    (res.op = "load"
       /\ \E i \in 1..Len(Readlines(file)) : Len(Split(Readlines(file)[i], ":")) < 3)
      => res.err # "none"

----------------------------------------------------------------------------
(* The expansion on its own: build_procedure_sequence_b applied to a         *)
(* sequence list drawn from bounded sets                                     *)

\* most maps of a sequence list
MaxMaps == 2
\* the length of the longest list value
MaxListLen == 2

Num(n) == [t |-> "float", v |-> <<n>>]
ListOf(xs) == [t |-> "list", v |-> xs]

Keys == {<<"a">>, <<"b">>, <<"c">>}
ScalarFor(k) == IF k = <<"b">> THEN [t |-> "str", v |-> <<"s">>] ELSE Num(0)
ListFor(k) ==
    IF k = <<"a">> THEN ListOf([i \in 1..MaxListLen |-> Num(i)])
    ELSE IF k = <<"b">> THEN ListOf(<<Num(3), ListOf(<<Num(4)>>)>>)
    ELSE ListOf(<<Num(5), Num(6), Num(7)>>)

Entries == UNION {{[k |-> k, v |-> ScalarFor(k)], [k |-> k, v |-> ListFor(k)]} : k \in Keys}
Rank(k) == IF k = <<"a">> THEN 1 ELSE IF k = <<"b">> THEN 2 ELSE 3
\* the dicts drawn: keys declared in the order a, b, c or in the order c, b, a,
\* each with its scalar or its list
Maps ==
    {m \in UNION {[1..n -> Entries] : n \in 0..Cardinality(Keys)} :
        \/ \A i, j \in 1..Len(m) : i < j => Rank(m[i].k) < Rank(m[j].k)
        \/ \A i, j \in 1..Len(m) : i < j => Rank(m[i].k) > Rank(m[j].k)}
SeqLists == UNION {[1..n -> Maps] : n \in 0..MaxMaps}

InitExpand == /\ tree = InitTree
              /\ file = <<>>
              /\ \E sl \in SeqLists : res = [NoRes EXCEPT !.op = "input", !.arg = sl]

Expand ==
    /\ res.op = "input"
    /\ res' = [res EXCEPT !.op = "expand", !.out = build_procedure_sequence_b(res.arg)]
    /\ UNCHANGED <<tree, file>>

NextExpand == Expand

SpecExpand == InitExpand /\ [][NextExpand]_vars

IsList(v) == v.t = "list"
ListIdx(dct) == {i \in 1..Len(dct) : IsList(dct[i].v)}

\* the product of the lengths of the list values at the positions in S
RECURSIVE LenProd(_, _)
LenProd(dct, S) ==
    IF S = {} THEN 1
    ELSE LET i == CHOOSE i \in S : TRUE
         IN Len(dct[i].v.v) * LenProd(dct, S \ {i})

\* the block the claim expects of a map: the j-th map (j from 0) takes, for
\* the list key at position i, the element whose index is the digit of j in
\* the mixed radix whose most significant digit is the first list key
ExpectedBlock(dct) ==
    [j \in 1..LenProd(dct, ListIdx(dct)) |->
        {[k |-> dct[i].k,
          v |-> IF IsList(dct[i].v)
                THEN LET inner == LenProd(dct, {m \in ListIdx(dct) : m > i})
                     IN dct[i].v.v[(((j - 1) \div inner) % Len(dct[i].v.v)) + 1]
                ELSE dct[i].v] : i \in 1..Len(dct)}]

RECURSIVE ExpectedExpansion(_)
ExpectedExpansion(sl) ==
    IF sl = <<>> THEN <<>>
    ELSE ExpectedBlock(Head(sl)) \o ExpectedExpansion(Tail(sl))

\* C4: the expansion is the concatenation, in input order, of one block per
\* map; a block holds one map per tuple of the Cartesian product of the list
\* values, in lexicographic order with the first list key outermost, each the
\* scalar entries unchanged plus one element per list key; a map without a
\* list value yields itself
C4_ExpansionCorrect ==
    res.op = "expand" =>
       /\ [i \in 1..Len(res.out) |-> AsMap(res.out[i])] = ExpectedExpansion(res.arg)
       /\ \A i \in 1..Len(res.out) : Len(res.out[i]) = Cardinality(AsMap(res.out[i]))
       /\ (\A i \in 1..Len(res.arg) : ListIdx(res.arg[i]) = {})
             => [i \in 1..Len(res.out) |-> AsMap(res.out[i])]
                   = [i \in 1..Len(res.arg) |-> AsMap(res.arg[i])]

\* an expansion of two maps, the first with two list keys around a scalar
C4_Witness ==
    /\ res.op = "expand"
    /\ Len(res.arg) = 2
    /\ Len(res.arg[1]) = 3
    /\ IsList(res.arg[1][1].v) /\ ~IsList(res.arg[1][2].v) /\ IsList(res.arg[1][3].v)
    /\ ListIdx(res.arg[2]) = {}
    /\ Len(res.out) = Len(res.arg[1][1].v.v) * Len(res.arg[1][3].v.v) + 1

----------------------------------------------------------------------------
(* The typecast on its own: typecast applied to a string drawn from the      *)
(* strings over a small alphabet                                             *)

\* the length of the longest string
MaxStrLen == 3

Alphabet == {"1", "-", "[", "]", ",", "n", "p"}
Strings == UNION {[1..n -> Alphabet] : n \in 0..MaxStrLen}

InitTypecast == /\ tree = InitTree
                /\ file = <<>>
                /\ \E s \in Strings : res = [NoRes EXCEPT !.op = "input", !.arg = s]

Typecast ==
    /\ res.op = "input"
    /\ LET r == typecast(res.arg)
       IN res' = [res EXCEPT !.op = "typecast", !.out = r,
                             !.err = IF r.t = "raise" THEN "EvalError" ELSE "none"]
    /\ UNCHANGED <<tree, file>>

NextTypecast == Typecast

SpecTypecast == InitTypecast /\ [][NextTypecast]_vars

\* a signed number, a bracket-delimited list or a text naming np
IsSignedNumber(s) == ParseNum(IF StartsWith(s, "-") THEN Tail(s) ELSE s).ok
IsBracketed(s) ==
    LET val == IF StartsWith(s, "-") THEN Tail(s) ELSE s
    IN StartsWith(val, "[") /\ EndsWith(val, "]")

\* C10: typecast returns a value for every string and never raises; a string
\* that is no signed number, no bracketed list and no array literal comes
\* back unchanged
C10_TypecastTotal ==
    res.op = "typecast" =>
       /\ res.out.t # "raise"
       /\ (~IsSignedNumber(res.arg) /\ ~IsBracketed(res.arg) /\ ~ContainsNp(res.arg))
             => res.out = [t |-> "str", v |-> res.arg]

\* the same for the strings that do not name np
C10_WithoutNp ==
    (res.op = "typecast" /\ ~ContainsNp(res.arg)) =>
       /\ res.out.t # "raise"
       /\ (~IsSignedNumber(res.arg) /\ ~IsBracketed(res.arg))
             => res.out = [t |-> "str", v |-> res.arg]

====
